---- MODULE Spec2Model ----
(***************************************************************************)
(* Storage-to-index synchronisation of pkg/chartmuseum/server.go:          *)
(* syncRepositoryIndex, listObjectsGetDiff, regenerateRepositoryIndex,     *)
(* removeIndexObject, updateIndexObject, addIndexObjectsAsync,             *)
(* getObjectChartVersion and checkInvalidChartPackageError, run by         *)
(* several concurrent callers against a changing object store.             *)
(***************************************************************************)
EXTENDS Integers, FiniteSets, Sequences, TLC

\* ------------------------------------------------------------------ bounds
NumCallers == 2
MaxStoreChanges == 2

\* ------------------------------------------------------------- value sets
Callers == 1..NumCallers
NoCaller == 0

\* Object paths of the store. "a-1.tgz" has a file name that yields a
\* (name, version); "junk.tgz" has the package extension but a file name that
\* yields none; "notes.txt" lacks the package extension.
TgzPaths == {"a-1.tgz", "junk.tgz"}
Paths == TgzPaths \cup {"notes.txt"}

\* (name, version) identities of chart versions.
Keys == {"a@1", "b@2"}
NoKey == "nokey"

\* Contents of a stored object: a package whose Chart.yaml carries one of
\* Keys, no bytes at all, or bytes that are no chart package.
Contents == Keys \cup {"empty", "garbage"}

\* The contents the store's clients write under each path; "notes.txt" is
\* there from the start and nobody touches it.
ContentsOf(p) ==
    IF p = "a-1.tgz" THEN {"a@1", "empty"}
    ELSE IF p = "junk.tgz" THEN {"a@1", "b@2", "garbage"}
    ELSE {}

\* A path no object was written under yet. The marker of an object stands for
\* what a listing tells about its version (its LastModified): it changes with
\* every write of the object, and listings compare it per path only.
Absent == [marker |-> 0, content |-> "absent"]

\* Error values.
NoErr == [kind |-> "nil", path |-> "none"]
ErrorInvalidChartPackage == [kind |-> "invalid chart package", path |-> "none"]
ErrList == [kind |-> "ListObjects failed", path |-> "none"]
ErrRegenerate == [kind |-> "Regenerate failed", path |-> "none"]
ErrGet(p) == [kind |-> "GetObject failed", path |-> p]

NoCv == [key |-> NoKey, path |-> "none"]

VARIABLES
    store,             \* StorageBackend: path -> [marker, content]
    clock,             \* number of writes the store has seen (LastModified source)
    RepositoryIndex,   \* server.RepositoryIndex: the published Index struct
    Entries,           \* the Entries of the one IndexFile all Index structs share
    StorageCache,      \* server.StorageCache: the published Snapshot
    StorageCacheLock,  \* holder of server.StorageCacheLock, NoCaller when free
    pc,                \* position of each caller
    ret,               \* the error regenerateRepositoryIndex is returning
    objects,           \* regenerateRepositoryIndex: local objects
    diff,              \* regenerateRepositoryIndex: local diff, what is left of it
    index,             \* regenerateRepositoryIndex: local index (the new Index struct)
    task,              \* addIndexObjectsAsync: the goroutine of each Added object
    cancelled,         \* addIndexObjectsAsync: ctx is Done
    received,          \* addIndexObjectsAsync: validCount
    strays,            \* objects whose goroutine of an earlier call has yet to fetch
    start,             \* history: published state when the lock was taken
    views,             \* history: published entry mappings seen during this regeneration
    seen,              \* history: resolver outcomes of this regeneration
    skipObs,           \* history: listings seen by calls that skipped during this regeneration
    allOk,             \* history: no regeneration has returned an error so far
    fetches            \* history: GetObject calls made during this regeneration

vars == <<store, clock, RepositoryIndex, Entries, StorageCache, StorageCacheLock,
          pc, ret, objects, diff, index, task, cancelled, received, strays,
          start, views, seen, skipObs, allOk, fetches>>

published == <<RepositoryIndex, Entries, StorageCache>>
locals == <<objects, diff, index>>
fanout == <<task, cancelled, received, strays>>
history == <<start, views, seen, skipObs, allOk, fetches>>

\* ------------------------------------------------------- pure operators

\* storage.Object.HasExtension(repo.ChartPackageFileExtension)
HasExtension(path) == path \in TgzPaths

\* The (name, version) a package file name yields, NoKey when it yields none.
PathKey(path) == IF path = "a-1.tgz" THEN "a@1" ELSE NoKey

\* StorageBackend.ListObjects(): the descriptors of the objects in the store.
AllObjects == {[path |-> p, marker |-> store[p].marker] : p \in {q \in Paths : store[q].content # "absent"}}

\* listObjectsGetDiff: the filter loop over allObjects.
FilteredObjects(all) == {o \in all : HasExtension(o.path)}

\* storage.GetObjectSliceDiff(os1, os2)
GetObjectSliceDiff(os1, os2) ==
    LET removed == {o \in os1 : \A n \in os2 : n.path # o.path}
        added == {n \in os2 : \A o \in os1 : o.path # n.path}
        updated == {n \in os2 : \E o \in os1 : o.path = n.path /\ o.marker # n.marker}
    IN [Change |-> (removed \cup added \cup updated) # {},
        Removed |-> removed, Added |-> added, Updated |-> updated]

NoDiff == [Change |-> FALSE, Removed |-> {}, Added |-> {}, Updated |-> {}]

\* StorageBackend.GetObject(path): the outcomes the backend can produce now.
GetObjectOutcomes(path) ==
    {[err |-> ErrGet(path), content |-> "empty"]} \cup
    (IF store[path].content # "absent" THEN {[err |-> NoErr, content |-> store[path].content]} ELSE {})

\* repo.ChartVersionFromStorageObject(object): from the content when there is
\* content, from the file name otherwise.
ChartVersionFromStorageObject(path, content) ==
    IF content = "empty"
    THEN IF PathKey(path) = NoKey
         THEN [cv |-> NoCv, err |-> ErrorInvalidChartPackage]
         ELSE [cv |-> [key |-> PathKey(path), path |-> path], err |-> NoErr]
    ELSE IF content \in Keys
         THEN [cv |-> [key |-> content, path |-> path], err |-> NoErr]
         ELSE [cv |-> NoCv, err |-> ErrorInvalidChartPackage]

\* getObjectChartVersion(object, load); got is what GetObject returned.
getObjectChartVersion(path, load, got) ==
    IF load
    THEN IF got.err # NoErr
         THEN [cv |-> NoCv, err |-> got.err]
         ELSE IF got.content = "empty"
              THEN [cv |-> NoCv, err |-> ErrorInvalidChartPackage]
              ELSE ChartVersionFromStorageObject(path, got.content)
    ELSE ChartVersionFromStorageObject(path, "empty")

\* getObjectChartVersion: the GetObject calls it makes for path, added to the
\* history f (`if load { object, err = server.StorageBackend.GetObject(...) }`).
Fetched(f, path, load) ==
    [f EXCEPT ![path] = IF load THEN @ + 1 ELSE @]

\* Mutant of checkInvalidChartPackageError: the error is passed on as it is.
checkPassesEveryError(err) == err

\* checkInvalidChartPackageError(object, err, action)
checkInvalidChartPackageError(err) ==
    IF err = ErrorInvalidChartPackage THEN NoErr ELSE err

\* repo.Index.AddEntry / UpdateEntry / RemoveEntry / Regenerate on an entry
\* mapping (name, version) -> metadata; the metadata records the object the
\* chart version was read from.
AddEntry(E, cv) == [k \in DOMAIN E \cup {cv.key} |-> IF k = cv.key THEN cv.path ELSE E[k]]
UpdateEntry(E, cv) == [k \in DOMAIN E \cup {cv.key} |-> IF k = cv.key THEN cv.path ELSE E[k]]
RemoveEntry(E, cv) == [k \in DOMAIN E \ {cv.key} |-> E[k]]
Serialize(E) == {<<k, E[k]>> : k \in DOMAIN E}

EmptyEntries == [k \in {} |-> "none"]

\* ------------------------------------------------------------ initial state

NoTask == [st |-> "none", cv |-> NoCv, err |-> NoErr]
NoStart == [Entries |-> EmptyEntries, Raw |-> {}, Cache |-> {}]
NoSeen == [invalid |-> {}, fatal |-> FALSE]
NoIndex == [Raw |-> {}]
NoFetches == [p \in TgzPaths |-> 0]

\* An object written before the server started.
Old(x) == [marker |-> 0, content |-> x]

\* The store a server is started on: it holds no chart package yet; the
\* packages arrive through StorePut, before or after NewServer lists the store.
InitStores ==
    {[p \in Paths |-> IF p = "notes.txt" THEN Old("garbage") ELSE Absent]}

\* The start of NewServer, with the values its struct literal gives the
\* Server fields: an empty Index, an empty StorageCache, a free lock. Caller 1
\* is NewServer's thread; the other callers arrive once NewServer has returned
\* a server they can use.
Init ==
    /\ store \in InitStores
    /\ clock = 0
    /\ RepositoryIndex = [Raw |-> {}, builtFrom |-> {}]
    /\ Entries = EmptyEntries
    /\ StorageCache = {}
    /\ StorageCacheLock = NoCaller
    /\ pc = [c \in Callers |-> IF c = 1 THEN "new" ELSE "wait"]
    /\ ret = NoErr
    /\ objects = {}
    /\ diff = NoDiff
    /\ index = NoIndex
    /\ task = [p \in TgzPaths |-> NoTask]
    /\ cancelled = FALSE
    /\ received = 0
    /\ strays = {}
    /\ start = NoStart
    /\ views = {}
    /\ seen = NoSeen
    /\ skipObs = {}
    /\ allOk = TRUE
    /\ fetches = NoFetches

\* ---------------------------------------------------------------- NewServer

\* NewServer up to its call of regenerateRepositoryIndex. NewLogger returns
\* an error when config.Build() fails, and NewServer then returns
\* `new(Server), nil` (pc "blank"); otherwise it builds logger, router and
\* the Server struct, sets the routes and calls regenerateRepositoryIndex.
NewServer(c) ==
    /\ pc[c] = "new"
    /\ \/ pc' = [pc EXCEPT ![c] = "blank"]
       \/ pc' = [pc EXCEPT ![c] = "lock"]
    /\ UNCHANGED <<store, clock, published, StorageCacheLock, ret, locals, fanout, history>>

\* ------------------------------------------------------------ the store

\* A client of the storage backend writes an object.
StorePut(p, x) ==
    /\ clock < MaxStoreChanges
    /\ x \in ContentsOf(p)
    /\ clock' = clock + 1
    /\ store' = [store EXCEPT ![p] = [marker |-> store[p].marker + 1, content |-> x]]
    /\ UNCHANGED <<published, StorageCacheLock, pc, ret, locals, fanout, history>>

\* A client of the storage backend deletes an object.
StoreDelete(p) ==
    /\ clock < MaxStoreChanges
    /\ ContentsOf(p) # {}
    /\ store[p].content # "absent"
    /\ clock' = clock + 1
    /\ store' = [store EXCEPT ![p].content = "absent"]
    /\ UNCHANGED <<published, StorageCacheLock, pc, ret, locals, fanout, history>>

\* ------------------------------------------------------ syncRepositoryIndex

\* Mutant of LockFree: Lock() returns at once, held or not.
LockNeverBlocks == TRUE

\* server.StorageCacheLock.Lock() returns only when the mutex is free.
LockFree == StorageCacheLock = NoCaller

\* Mutant of SkipRegenerate: the skip is taken when the diff has changes.
SkipOnChange(d) == d.Change

\* syncRepositoryIndex: `if !diff.Change { return nil }`
SkipRegenerate(d) == ~d.Change

\* syncRepositoryIndex up to its call of regenerateRepositoryIndex: one
\* listObjectsGetDiff, made without the lock, then `return err` (the caller is
\* back where it was), `return nil` (pc "skipped") or the call of
\* regenerateRepositoryIndex (pc "lock").
SyncList(c) ==
    /\ pc[c] = "idle"
    /\ UNCHANGED <<store, clock, published, StorageCacheLock, ret, locals, fanout,
                   start, views, seen, allOk, fetches>>
    /\ \/ UNCHANGED <<pc, skipObs>>
       \/ LET filtered == FilteredObjects(AllObjects)
              d == GetObjectSliceDiff(StorageCache, filtered)
          IN IF SkipRegenerate(d)
             THEN /\ pc' = [pc EXCEPT ![c] = "skipped"]
                  /\ skipObs' = IF LockFree THEN skipObs ELSE skipObs \cup {filtered}
             ELSE /\ pc' = [pc EXCEPT ![c] = "lock"]
                  /\ UNCHANGED skipObs

\* The caller of syncRepositoryIndex takes the nil it returned.
Return(c) ==
    /\ pc[c] = "skipped"
    /\ pc' = [pc EXCEPT ![c] = "idle"]
    /\ UNCHANGED <<store, clock, published, StorageCacheLock, ret, locals, fanout, history>>

\* ------------------------------------------------ regenerateRepositoryIndex

\* History: the resolver said ErrorInvalidChartPackage for path in loop phase.
Invalid(phase, path, err) ==
    IF err = ErrorInvalidChartPackage THEN {<<phase, path>>} ELSE {}

\* The first loop of regenerateRepositoryIndex that has work left.
Phase(d) ==
    IF d.Removed # {} THEN "removed"
    ELSE IF d.Updated # {} THEN "updated"
    ELSE "added"

\* Lock(), listObjectsGetDiff() under the lock, and the new Index struct. The
\* struct literal copies the IndexFile field of the published Index, so the
\* new Index and the published one share one entry mapping (Entries); Raw is
\* the new struct's own.
RegenBegin(c) ==
    /\ pc[c] = "lock"
    /\ LockFree
    /\ StorageCacheLock' = c
    /\ start' = [Entries |-> Entries, Raw |-> RepositoryIndex.Raw, Cache |-> StorageCache]
    /\ views' = {Entries}
    /\ UNCHANGED <<store, clock, published, fanout, skipObs, allOk, fetches>>
    /\ \/ /\ ret' = ErrList
          /\ pc' = [pc EXCEPT ![c] = "unlock"]
          /\ seen' = [invalid |-> {}, fatal |-> TRUE]
          /\ UNCHANGED locals
       \/ LET filtered == FilteredObjects(AllObjects)
              d == GetObjectSliceDiff(StorageCache, filtered)
          IN /\ objects' = filtered
             /\ diff' = d
             /\ index' = [Raw |-> RepositoryIndex.Raw]
             /\ pc' = [pc EXCEPT ![c] = Phase(d)]
             /\ seen' = NoSeen
             /\ UNCHANGED ret

\* One iteration of `for _, object := range diff.Removed`: removeIndexObject.
RemoveObject(c) ==
    /\ pc[c] = "removed"
    /\ \E o \in diff.Removed :
         LET r == getObjectChartVersion(o.path, FALSE, [err |-> NoErr, content |-> "empty"])
             e == IF r.err # NoErr THEN checkInvalidChartPackageError(r.err) ELSE NoErr
             d == [diff EXCEPT !.Removed = @ \ {o}]
         IN /\ diff' = d
            /\ IF e # NoErr
               THEN /\ ret' = e
                    /\ pc' = [pc EXCEPT ![c] = "unlock"]
                    /\ UNCHANGED Entries
               ELSE /\ pc' = [pc EXCEPT ![c] = Phase(d)]
                    /\ Entries' = IF r.err = NoErr THEN RemoveEntry(Entries, r.cv) ELSE Entries
                    /\ UNCHANGED ret
            /\ seen' = [invalid |-> seen.invalid \cup Invalid("removed", o.path, r.err),
                        fatal |-> seen.fatal \/ e # NoErr]
            /\ fetches' = Fetched(fetches, o.path, FALSE)
    /\ views' = views \cup {Entries'}
    /\ UNCHANGED <<store, clock, RepositoryIndex, StorageCache, StorageCacheLock,
                   objects, index, fanout, start, skipObs, allOk>>

\* One iteration of `for _, object := range diff.Updated`: updateIndexObject.
UpdateObject(c) ==
    /\ pc[c] = "updated"
    /\ \E o \in diff.Updated : \E got \in GetObjectOutcomes(o.path) :
         LET r == getObjectChartVersion(o.path, TRUE, got)
             e == IF r.err # NoErr THEN checkInvalidChartPackageError(r.err) ELSE NoErr
             d == [diff EXCEPT !.Updated = @ \ {o}]
         IN /\ diff' = d
            /\ IF e # NoErr
               THEN /\ ret' = e
                    /\ pc' = [pc EXCEPT ![c] = "unlock"]
                    /\ UNCHANGED Entries
               ELSE /\ pc' = [pc EXCEPT ![c] = Phase(d)]
                    /\ Entries' = IF r.err = NoErr THEN UpdateEntry(Entries, r.cv) ELSE Entries
                    /\ UNCHANGED ret
            /\ seen' = [invalid |-> seen.invalid \cup Invalid("updated", o.path, r.err),
                        fatal |-> seen.fatal \/ e # NoErr]
            /\ fetches' = Fetched(fetches, o.path, TRUE)
    /\ views' = views \cup {Entries'}
    /\ UNCHANGED <<store, clock, RepositoryIndex, StorageCache, StorageCacheLock,
                   objects, index, fanout, start, skipObs, allOk>>

\* ----------------------------------------------------- addIndexObjectsAsync

\* The goroutines a returned addIndexObjectsAsync leaves behind for good, by
\* the object they were started for: one past its ctx check finishes its fetch
\* and then, like one that already has a result, waits on cvChan, from which
\* nobody receives any more. (One still at its ctx check finds ctx Done and
\* returns.)
Leftover == {q \in TgzPaths : task[q].st \in {"run", "send"}}

\* Those of them that have their GetObject call still ahead. The others do
\* nothing any more and are not kept in the state.
Stray == {q \in TgzPaths : task[q].st = "run"}

\* A goroutine left behind by a returned addIndexObjectsAsync makes its
\* GetObject call (getObjectChartVersion(o, true)) and goes on to its send,
\* where it stays.
StrayFetch(p) ==
    /\ p \in strays
    /\ strays' = strays \ {p}
    /\ UNCHANGED <<store, clock, published, StorageCacheLock, pc, ret, locals,
                   task, cancelled, received, history>>

\* addIndexObjectsAsync up to its receive loop: numObjects == 0 returns nil,
\* otherwise cvChan, ctx and one goroutine per object.
AddSpawn(c) ==
    /\ pc[c] = "added"
    /\ IF diff.Added = {}
       THEN /\ pc' = [pc EXCEPT ![c] = "regen"]
            /\ UNCHANGED fanout
       ELSE /\ pc' = [pc EXCEPT ![c] = "collect"]
            /\ UNCHANGED strays
            /\ task' = [p \in TgzPaths |->
                  IF \E o \in diff.Added : o.path = p
                  THEN [st |-> "spawned", cv |-> NoCv, err |-> NoErr]
                  ELSE NoTask]
            /\ cancelled' = FALSE
            /\ received' = 0
    /\ UNCHANGED <<store, clock, published, StorageCacheLock, ret, locals, history>>

\* Mutant of CtxDone: the goroutines never see the cancellation.
CtxNeverDone == FALSE

\* `case <-ctx.Done():` is ready once cancel() has been called.
CtxDone == cancelled

\* A goroutine's select: `case <-ctx.Done(): return`, else the default branch.
TaskCheck(p) ==
    /\ task[p].st = "spawned"
    /\ task' = [task EXCEPT ![p].st = IF CtxDone THEN "exited" ELSE "run"]
    /\ UNCHANGED <<store, clock, published, StorageCacheLock, pc, ret, locals,
                   cancelled, received, strays, history>>

\* Mutant of Cancels: cancel() on every error the resolver returned.
CancelsOnAnyError(raw, e) == raw # NoErr

\* `if err != nil { cancel() }`, on the error checkInvalidChartPackageError
\* left (e) of the resolver's error (raw).
Cancels(raw, e) == e # NoErr

\* The default branch up to its send: getObjectChartVersion(o, true),
\* checkInvalidChartPackageError, cancel() on an error.
TaskFetch(p) ==
    /\ task[p].st = "run"
    /\ \E got \in GetObjectOutcomes(p) :
         LET r == getObjectChartVersion(p, TRUE, got)
             e == IF r.err # NoErr THEN checkInvalidChartPackageError(r.err) ELSE NoErr
         IN /\ task' = [task EXCEPT ![p] = [st |-> "send", cv |-> r.cv, err |-> e]]
            /\ cancelled' = (cancelled \/ Cancels(r.err, e))
            /\ seen' = [invalid |-> seen.invalid \cup Invalid("added", p, r.err),
                        fatal |-> seen.fatal \/ e # NoErr]
            /\ fetches' = Fetched(fetches, p, TRUE)
    /\ UNCHANGED <<store, clock, published, StorageCacheLock, pc, ret, locals,
                   received, strays, start, views, skipObs, allOk>>

\* Mutant of CollectReturns: the receive loop never returns early.
CollectNeverReturns(res) == FALSE

\* The receive loop: `if cvRes.err != nil { return cvRes.err }`
CollectReturns(res) == res.err # NoErr

\* One iteration of the receive loop: `cvRes := <-cvChan` meets the send of
\* goroutine p. The deferred cancel() runs when the function returns.
Collect(c, p) ==
    /\ pc[c] = "collect"
    /\ task[p].st = "send"
    /\ task' = [task EXCEPT ![p].st = "exited"]
    /\ IF CollectReturns(task[p])
       THEN /\ ret' = task[p].err
            /\ pc' = [pc EXCEPT ![c] = "unlock"]
            /\ cancelled' = TRUE
            /\ UNCHANGED <<Entries, received>>
       ELSE /\ Entries' = IF task[p].cv = NoCv THEN Entries ELSE AddEntry(Entries, task[p].cv)
            /\ received' = received + 1
            /\ IF received + 1 = Cardinality(diff.Added)
               THEN /\ pc' = [pc EXCEPT ![c] = "regen"]
                    /\ cancelled' = TRUE
               ELSE UNCHANGED <<pc, cancelled>>
            /\ UNCHANGED ret
    /\ views' = views \cup {Entries'}
    /\ UNCHANGED <<store, clock, RepositoryIndex, StorageCache, StorageCacheLock,
                   locals, strays, start, seen, skipObs, allOk, fetches>>

\* ------------------------------------------- Regenerate, publish, Unlock

\* index.Regenerate(): fails, or serializes the entry mapping into index.Raw.
Regenerate(c) ==
    /\ pc[c] = "regen"
    /\ \/ /\ ret' = ErrRegenerate
          /\ pc' = [pc EXCEPT ![c] = "unlock"]
          /\ seen' = [seen EXCEPT !.fatal = TRUE]
          /\ UNCHANGED index
       \/ /\ index' = [Raw |-> Serialize(Entries)]
          /\ pc' = [pc EXCEPT ![c] = "publish"]
          /\ UNCHANGED <<ret, seen>>
    /\ UNCHANGED <<store, clock, published, StorageCacheLock, objects, diff, fanout,
                   start, views, skipObs, allOk, fetches>>

\* `server.RepositoryIndex = index`
PublishIndex(c) ==
    /\ pc[c] = "publish"
    /\ RepositoryIndex' = [Raw |-> index.Raw, builtFrom |-> objects]
    /\ pc' = [pc EXCEPT ![c] = "cache"]
    /\ UNCHANGED <<store, clock, Entries, StorageCache, StorageCacheLock, ret, locals,
                   fanout, history>>

\* `server.StorageCache = objects; return nil`
PublishCache(c) ==
    /\ pc[c] = "cache"
    /\ StorageCache' = objects
    /\ ret' = NoErr
    /\ pc' = [pc EXCEPT ![c] = "unlock"]
    /\ UNCHANGED <<store, clock, RepositoryIndex, Entries, StorageCacheLock, locals,
                   fanout, history>>

\* Mutant of DeferredUnlock: the mutex is released on the success path only.
UnlockOnSuccess(c, err) == IF err = NoErr THEN NoCaller ELSE c

\* `defer func() { ...; server.StorageCacheLock.Unlock() }()`: runs on every
\* return of regenerateRepositoryIndex, whatever error it returns.
DeferredUnlock(c, err) == NoCaller

\* NewServer is still running: nobody else has the server yet.
InNewServer == \E d \in Callers : pc[d] = "wait"

\* The deferred Unlock(): regenerateRepositoryIndex hands ret to its caller,
\* syncRepositoryIndex or NewServer, which returns it. NewServer's return with
\* a nil error lets the other callers in; with an error no server is started
\* (pc "failed").
Unlock(c) ==
    /\ pc[c] = "unlock"
    /\ StorageCacheLock' = DeferredUnlock(c, ret)
    /\ IF InNewServer /\ ret # NoErr
       THEN /\ pc' = [pc EXCEPT ![c] = "failed"]
            /\ UNCHANGED ret
       ELSE /\ pc' = [d \in Callers |-> IF d = c \/ pc[d] = "wait" THEN "idle" ELSE pc[d]]
            /\ ret' = NoErr
    /\ strays' = strays \cup Stray
    /\ task' = [p \in TgzPaths |-> NoTask]
    /\ cancelled' = FALSE
    /\ received' = 0
    /\ objects' = {}
    /\ diff' = NoDiff
    /\ index' = NoIndex
    /\ start' = NoStart
    /\ views' = {}
    /\ seen' = NoSeen
    /\ skipObs' = {}
    /\ allOk' = (allOk /\ ret = NoErr)
    /\ fetches' = NoFetches
    /\ UNCHANGED <<store, clock, published>>

\* ------------------------------------------------------------ specification

Next ==
    \/ \E c \in Callers : NewServer(c)
    \/ \E p \in Paths, x \in Contents : StorePut(p, x)
    \/ \E p \in Paths : StoreDelete(p)
    \/ \E c \in Callers : SyncList(c)
    \/ \E c \in Callers : Return(c)
    \/ \E c \in Callers : RegenBegin(c)
    \/ \E c \in Callers : RemoveObject(c)
    \/ \E c \in Callers : UpdateObject(c)
    \/ \E c \in Callers : AddSpawn(c)
    \/ \E p \in TgzPaths : TaskCheck(p)
    \/ \E p \in TgzPaths : TaskFetch(p)
    \/ \E p \in TgzPaths : StrayFetch(p)
    \/ \E c \in Callers, p \in TgzPaths : Collect(c, p)
    \/ \E c \in Callers : Regenerate(c)
    \/ \E c \in Callers : PublishIndex(c)
    \/ \E c \in Callers : PublishCache(c)
    \/ \E c \in Callers : Unlock(c)

Spec == Init /\ [][Next]_vars

\* The steps the Go scheduler and the storage backend owe a caller that is
\* inside syncRepositoryIndex: every storage call returns and every runnable
\* goroutine runs (weak fairness); a goroutine waiting in Lock() gets the
\* mutex after finitely many releases (sync.Mutex hands a starving waiter the
\* mutex: strong fairness). Nobody owes a new call of syncRepositoryIndex or
\* a change of the store.
Fairness ==
    /\ \A c \in Callers :
        /\ SF_vars(RegenBegin(c))
        /\ WF_vars(Return(c))
        /\ WF_vars(RemoveObject(c))
        /\ WF_vars(UpdateObject(c))
        /\ WF_vars(AddSpawn(c))
        /\ WF_vars(\E p \in TgzPaths : Collect(c, p))
        /\ WF_vars(Regenerate(c))
        /\ WF_vars(PublishIndex(c))
        /\ WF_vars(PublishCache(c))
        /\ WF_vars(Unlock(c))
    /\ \A p \in TgzPaths :
        WF_vars(TaskCheck(p)) /\ WF_vars(TaskFetch(p)) /\ WF_vars(StrayFetch(p))

LiveSpec == Spec /\ Fairness

\* ------------------------------------------------------------------ claims

\* The positions inside the body of regenerateRepositoryIndex, after Lock().
RegenBody == {"removed", "updated", "added", "collect", "regen", "publish", "cache", "unlock"}

\* The objects whose goroutine ended with a fatal (non-invalid) error.
FatalTasks == {p \in TgzPaths : task[p].err # NoErr}

\* The objects whose content the resolver fetched and found invalid during
\* this regeneration.
FetchedInvalid == {x[2] : x \in {y \in seen.invalid : y[1] \in {"updated", "added"}}}

\* C1: at most one caller is inside the body of regenerateRepositoryIndex at
\* any time, and that caller holds StorageCacheLock.
C1Thm ==
    \A c, d \in Callers :
        pc[c] \in RegenBody /\ pc[d] \in RegenBody => c = d /\ StorageCacheLock = c

\* C1 witness: one caller is inside the body while another waits in Lock().
C1Wit ==
    \E c, d \in Callers : pc[c] \in RegenBody \ {"unlock"} /\ pc[d] = "lock"

\* C2: a regeneration that returns an error leaves the published entry
\* mapping, the published document and the published Snapshot as they were
\* when it started.
C2Claim ==
    \A c \in Callers :
        pc[c] = "unlock" /\ ret # NoErr =>
            /\ Entries = start.Entries
            /\ RepositoryIndex.Raw = start.Raw
            /\ StorageCache = start.Cache

\* C3: during a regeneration the published entry mapping takes at most two
\* values, the one before and the one after; no mapping with part of the
\* diff applied is ever readable.
C3Claim == Cardinality(views) <= 2

\* C4: once the receive loop is over, the regeneration has returned the error
\* of one of the goroutines that ended with a fatal error if there is any
\* (so exactly that error when there is one), and it has gone on to
\* Regenerate only if there is none.
C4Thm ==
    \A c \in Callers :
        /\ pc[c] \in {"regen", "publish", "cache"} => FatalTasks = {}
        /\ pc[c] = "unlock" /\ FatalTasks # {} => \E p \in FatalTasks : ret = task[p].err
        /\ pc[c] = "unlock" /\ (\E p \in TgzPaths : FatalTasks = {p}) =>
              \A p \in FatalTasks : ret = ErrGet(p)

\* C4 witness: two goroutines were dispatched, one delivered a chart version
\* that was added, the other ended with a fatal error, which was returned.
C4Wit ==
    \E c \in Callers : \E p, q \in TgzPaths :
        /\ pc[c] = "unlock"
        /\ FatalTasks = {p}
        /\ ret = ErrGet(p)
        /\ task[q].st = "exited" /\ task[q].cv # NoCv

\* C5: after a sequence of regenerations that all succeeded, the last one of
\* a store that has not changed since it was listed, the published Index has
\* an entry for exactly the (name, version) of each listed object whose
\* content is a valid chart package.
C5Claim ==
    \A c \in Callers :
        pc[c] = "unlock" /\ ret = NoErr /\ allOk /\ objects = FilteredObjects(AllObjects) =>
            DOMAIN Entries =
                {store[o.path].content : o \in {x \in StorageCache : store[x.path].content \in Keys}}

\* C6: an object whose fetched content was empty or no chart package has no
\* entry in the Index that regeneration publishes. Stated for the runs in
\* which no regeneration has failed, where no entry of a failed attempt is
\* around: what breaks it there breaks the claim by itself.
C6Claim ==
    \A c \in Callers :
        pc[c] = "unlock" /\ ret = NoErr /\ allOk =>
            \A p \in FetchedInvalid : \A k \in DOMAIN Entries : Entries[k] # p

\* C7: ErrorInvalidChartPackage is never the error a regeneration returns nor
\* the error of a goroutine, ctx is cancelled during the receive loop only
\* after a fatal error, and a regeneration in which no storage call and no
\* Regenerate failed returns nil with the listing published.
C7Thm ==
    /\ ret # ErrorInvalidChartPackage
    /\ \A p \in TgzPaths : task[p].err # ErrorInvalidChartPackage
    /\ \A c \in Callers :
        /\ pc[c] = "collect" /\ cancelled => FatalTasks # {}
        /\ pc[c] = "unlock" /\ ~seen.fatal =>
              ret = NoErr /\ StorageCache = objects /\ RepositoryIndex.builtFrom = objects

\* C7 witness: a regeneration in which the resolver said invalid, in the
\* Added fan-out among others, has published and is returning nil.
C7Wit ==
    \E c \in Callers :
        /\ pc[c] = "unlock" /\ ret = NoErr /\ ~seen.fatal
        /\ \E x \in seen.invalid : x[1] = "added"
        /\ StorageCache = objects

\* C8: a successful regeneration leaves the Snapshot equal to the listing it
\* made, and a call of syncRepositoryIndex that lists what the Snapshot holds
\* returns nil on the skip path: it changes neither Index nor Snapshot and
\* starts no resolver.
C8Thm ==
    /\ [](\A c \in Callers : pc[c] = "unlock" /\ ret = NoErr => StorageCache = objects)
    /\ [][\A c \in Callers :
            pc[c] = "idle" /\ pc'[c] # "idle" /\ StorageCache = FilteredObjects(AllObjects) =>
                pc'[c] = "skipped" /\ UNCHANGED <<published, task, cancelled, ret>>]_vars

\* C8 witness: a call took the skip path on a listing that holds an object
\* whose content is invalid.
C8Wit ==
    \E c \in Callers :
        /\ pc[c] = "skipped"
        /\ StorageCache = FilteredObjects(AllObjects)
        /\ \E o \in StorageCache : store[o.path].content \in {"empty", "garbage"}

\* C9: when the regeneration that was in flight while a call skipped has
\* finished, the published Snapshot equals the listing the skipping call saw.
C9Claim ==
    \A c \in Callers :
        pc[c] = "unlock" => \A listing \in skipObs : StorageCache = listing

\* C10: the published Index and the published Snapshot come from the same
\* regeneration.
C10Claim == RepositoryIndex.builtFrom = StorageCache

\* C11: every diff against the published Snapshot is computed by a caller
\* that holds StorageCacheLock, and every write of the published Index or
\* Snapshot is made while the lock is held.
C11Claim ==
    [][/\ \A c \in Callers :
            pc[c] = "idle" /\ pc'[c] \in {"skipped", "lock"} => StorageCacheLock = c
       /\ published' # published => StorageCacheLock # NoCaller]_vars

\* The positions of a caller that is inside a call of syncRepositoryIndex (or,
\* for NewServer, of regenerateRepositoryIndex).
InCall == RegenBody \cup {"lock", "skipped"}

\* C12: the lock is held only by a caller inside the body of
\* regenerateRepositoryIndex, so every return has released it; a caller that
\* waits in Lock() gets the lock, and every call returns.
C12Thm ==
    /\ [](\A c \in Callers : StorageCacheLock = c => pc[c] \in RegenBody)
    /\ \A c \in Callers : (pc[c] = "lock") ~> (StorageCacheLock = c)
    /\ \A c \in Callers : (pc[c] \in InCall) ~> (pc[c] \notin InCall)

\* C12 witness: a regeneration is about to return an error while another
\* caller waits in Lock().
C12Wit ==
    \E c, d \in Callers :
        pc[c] = "unlock" /\ ret # NoErr /\ StorageCacheLock = c /\ pc[d] = "lock"

\* The diff the regeneration that holds the lock computed under it.
LockedDiff == GetObjectSliceDiff(start.Cache, objects)

\* The objects that diff has as Added or Updated.
Loadable == {o.path : o \in LockedDiff.Added \cup LockedDiff.Updated}

\* A GetObject call for path p is made in this step: by the caller that
\* regenerates or one of its goroutines, or by a goroutine left behind.
Call(p) == fetches'[p] > fetches[p] \/ (p \in strays /\ p \notin strays')

\* C13: every GetObject call made while a regeneration holds the lock is for
\* an object its diff has as Added or Updated, and for one that regeneration
\* has not called GetObject for yet.
C13Claim ==
    [][\A p \in TgzPaths :
          StorageCacheLock # NoCaller /\ Call(p) => p \in Loadable /\ fetches[p] = 0]_vars

\* The Added goroutines that hold a chart version ready to be delivered.
Ready == {p \in TgzPaths : task[p].st = "send" /\ task[p].err = NoErr /\ task[p].cv # NoCv}

\* C14: whenever the receive loop can take the chart versions of two Added
\* goroutines in either order, both orders leave the same entry mapping.
C14Claim ==
    \A p, q \in Ready :
        AddEntry(AddEntry(Entries, task[p].cv), task[q].cv)
            = AddEntry(AddEntry(Entries, task[q].cv), task[p].cv)

\* The objects addIndexObjectsAsync started a goroutine for.
Dispatched == {p \in TgzPaths : task[p] # NoTask}

\* The outcomes the receive loop has taken from cvChan: those it counted in
\* validCount, and the error it returned if it returned one.
Received ==
    received + (IF \E p \in TgzPaths : task[p].st = "exited" /\ task[p].err # NoErr
                THEN 1 ELSE 0)

\* C15: when addIndexObjectsAsync has returned, with nil or with an error,
\* it has received as many outcomes as it started goroutines, one from each.
C15Claim ==
    \A c \in Callers :
        pc[c] \in {"regen", "publish", "cache", "unlock"} /\ Dispatched # {} =>
            Received = Cardinality(Dispatched)

\* C16: no goroutine of addIndexObjectsAsync outlives its call for good: when
\* the call has returned, none is left that has a send on cvChan ahead,
\* which nobody will receive.
C16Claim ==
    \A c \in Callers : pc[c] \in {"regen", "publish", "cache", "unlock"} => Leftover = {}

\* The goroutines the receive loop can still get an outcome from.
Pending ==
    {p \in TgzPaths : task[p].st \in {"run", "send"} \/ (task[p].st = "spawned" /\ ~cancelled)}

\* C17: the receive loop never waits for an outcome that cannot come, and
\* addIndexObjectsAsync returns.
C17Thm ==
    /\ [](\A c \in Callers : pc[c] = "collect" => Pending # {})
    /\ \A c \in Callers : (pc[c] = "collect") ~> (pc[c] # "collect")

\* C17 witness: addIndexObjectsAsync has returned the fatal error of one
\* goroutine although another one exited on ctx.Done() without sending.
C17Wit ==
    \E c \in Callers : \E p, q \in TgzPaths :
        /\ pc[c] = "unlock" /\ ret = ErrGet(p)
        /\ task[q].st = "exited" /\ fetches[q] = 0

\* C18: a goroutine that reaches its ctx check after cancel() returns without
\* a GetObject call; during the receive loop only a goroutine whose outcome is
\* a fatal error cancels; a goroutine past its check can still make its call.
C18Thm ==
    /\ [][\A p \in TgzPaths :
            task[p].st = "spawned" /\ cancelled /\ task'[p] # task[p] =>
                task'[p].st \in {"exited", "none"} /\ fetches'[p] <= fetches[p]]_vars
    /\ [][\A c \in Callers :
            pc[c] = "collect" /\ pc'[c] = "collect" /\ ~cancelled /\ cancelled' =>
                \E p \in TgzPaths :
                    task[p].st = "run" /\ task'[p].st = "send" /\ task'[p].err # NoErr]_vars
    /\ [](\A p \in TgzPaths : task[p].st = "run" => ENABLED TaskFetch(p))

\* C18 witness: the receive loop is still waiting, ctx was cancelled by a
\* goroutine that holds a fatal error, and another goroutine has returned
\* at its ctx check without a GetObject call.
C18Wit ==
    \E c \in Callers : \E p, q \in TgzPaths :
        /\ pc[c] = "collect" /\ cancelled /\ received = 0
        /\ task[p].st = "send" /\ task[p].err # NoErr
        /\ task[q].st = "exited" /\ fetches[q] = 0

\* The positions from which a caller's next step calls RemoveEntry,
\* UpdateEntry, AddEntry or Regenerate on the Index under construction.
Mutating == {"removed", "updated", "collect", "regen"}

\* C19: at most one caller is in a position to mutate the Index under
\* construction, and it holds the lock; the entry mapping and the document
\* change only in a step of that caller; a step of a goroutine (its ctx
\* check, its fetch) changes neither.
C19Thm ==
    /\ [](\A c, d \in Callers :
            pc[c] \in Mutating /\ pc[d] \in Mutating => c = d /\ StorageCacheLock = c)
    /\ [][Entries' # Entries \/ (index' # index /\ index' # NoIndex /\ index # NoIndex) =>
            \E c \in Callers :
                StorageCacheLock = c /\ pc[c] \in Mutating /\ (pc'[c] # pc[c] \/ diff' # diff \/ received' # received)]_vars
    /\ [][(\E p \in TgzPaths : task[p].st \in {"spawned", "run"} /\ task'[p].st \in {"run", "send", "exited"}
                                  /\ task'[p] # task[p])
            \/ (strays' # strays /\ strays' \subseteq strays) =>
                UNCHANGED <<Entries, index, RepositoryIndex>>]_vars

\* C19 witness: the receive loop has added an entry while a goroutine of the
\* same fan-out is still at work.
C19Wit ==
    \E c \in Callers : \E p \in TgzPaths :
        /\ pc[c] = "collect" /\ received > 0 /\ Entries # start.Entries
        /\ task[p].st \in {"spawned", "run", "send"}

\* The Server NewServer's caller holds was built by the struct literal, with
\* its logger, router, Index and lock (and is not the zero value new(Server)).
Built == \A c \in Callers : pc[c] \notin {"new", "blank"}

\* C20: a step in which NewServer returns a nil error returns a Server built
\* with logger and router, after an initial regeneration that returned nil
\* and left the Snapshot equal to the listing it made.
C20Claim ==
    [][\A c \in Callers :
          InNewServer /\ pc[c] \in {"new", "unlock"} /\ pc'[c] \in {"blank", "idle"} =>
              Built' /\ ret = NoErr /\ StorageCache = objects]_vars

====
